---- MODULE Spec2Model ----
(***************************************************************************)
(* validatestring (str, strarray [, funcname [, varname]] [, position])    *)
(* of src/validatestring.cc (the loadable build) and                       *)
(* src/validatestring.cc.static (the built-in build).                      *)
(*                                                                         *)
(* A character string is a sequence of one-character strings; a message    *)
(* is a sequence of tokens, the characters of the texts that are spliced   *)
(* in and one token per string literal of the source, so that "+" on       *)
(* std::string is \o.  Indices are 1-based here and 0-based in the source: *)
(* matches holds i+1 for the source's i, min_len_idx holds the source's    *)
(* min_len_idx + 1.                                                        *)
(***************************************************************************)
EXTENDS Integers, Sequences, FiniteSets, TLC

(* ---------------------------------------------------------------------- *)
(* Bounds of the inputs                                                    *)
(* ---------------------------------------------------------------------- *)
\* longest text of the calls with one or two long entries
MaxLen == 2
\* most entries of the calls with short entries
MaxSet == 3

\* a letter in both cases and a second letter
Alphabet == {"a", "A", "b"}

Builds == {"dld", "static"}

\* all texts over Alphabet of length at most n
Texts(n) == UNION {[1..k -> Alphabet] : k \in 0..n}

\* the texts of at most one character, one of them the character that
\* starts a conversion in a format, and the text of two of these
ShortTexts ==
  {<<>>} \cup {<<ch>> : ch \in Alphabet \cup {"%"}} \cup {<<"%", "%">>}

\* all non-empty sequences over S of length at most n
SeqsUpTo(S, n) == UNION {[1..k -> S] : k \in 1..n}

(* ---------------------------------------------------------------------- *)
(* octave_value: the part of a value the function looks at                 *)
(* ---------------------------------------------------------------------- *)
\* a default-constructed octave_value
Undefined ==
  [type |-> "undefined", ndims |-> 2, rows |-> 0, text |-> <<>>, num |-> 0,
   cells |-> <<>>, cellstr |-> FALSE]

\* a char array of the given number of dimensions and rows
CharArray(nd, r, t) ==
  [type |-> "string", ndims |-> nd, rows |-> r, text |-> t, num |-> 0,
   cells |-> <<>>, cellstr |-> FALSE]

\* a 1 x n character string
RowString(t) == CharArray(2, 1, t)

\* a numeric scalar
Numeric(n) ==
  [type |-> "numeric", ndims |-> 2, rows |-> 1, text |-> <<>>, num |-> n,
   cells |-> <<>>, cellstr |-> FALSE]

\* a cell array of character strings
CellStr(c) ==
  [type |-> "cell", ndims |-> 2, rows |-> (IF Len(c) = 0 THEN 0 ELSE 1),
   text |-> <<>>, num |-> 0, cells |-> c, cellstr |-> TRUE]

\* a cell array with an element that is no character string
CellOther(c) ==
  [type |-> "cell", ndims |-> 2, rows |-> 1, text |-> <<>>, num |-> 0,
   cells |-> c, cellstr |-> FALSE]

is_string(v) == v.type = "string"

isnumeric(v) == v.type = "numeric"

iscellstr(v) == v.type = "cell" /\ v.cellstr

isempty(v) ==
  CASE v.type = "undefined" -> TRUE
    [] v.type = "string" -> v.rows = 0 \/ Len(v.text) = 0
    [] v.type = "cell" -> Len(v.cells) = 0
    [] OTHER -> FALSE

\* ov.ndims () != 2 || ov.dims ()(0) != 1
NotSingleRow(v) == v.ndims # 2 \/ v.rows # 1

(* ---------------------------------------------------------------------- *)
(* Character and string comparison                                         *)
(* ---------------------------------------------------------------------- *)
tolower(ch) ==
  CASE ch = "A" -> "a"
    [] ch = "B" -> "b"
    [] OTHER -> ch

\* case-sensitive comparison of the first n characters
strncmp(str_a, str_b, n) ==
  /\ Len(str_a) >= n
  /\ Len(str_b) >= n
  /\ \A k \in 1..n : str_a[k] = str_b[k]

\* octave::string::strncmpi: both strings have at least n characters and
\* their first n characters are equal when case is ignored
strncmpi(str_a, str_b, n) ==
  /\ Len(str_a) >= n
  /\ Len(str_b) >= n
  /\ \A k \in 1..n : tolower(str_a[k]) = tolower(str_b[k])

(* ---------------------------------------------------------------------- *)
(* Argument marshalling                                                    *)
(* ---------------------------------------------------------------------- *)
MaxNargin == 5

\* the loop over args(2) .. args(nargin - 1) that binds funcname and varname
RECURSIVE CharInputs(_, _, _)
CharInputs(a, i, st) ==
  IF i > Len(a) \/ st.err THEN st
  ELSE IF is_string(a[i])
       THEN CASE st.nstr = 0 ->
                   CharInputs(a, i + 1, [st EXCEPT !.funcname = a[i], !.nstr = 1])
              [] st.nstr = 1 ->
                   CharInputs(a, i + 1, [st EXCEPT !.varname = a[i], !.nstr = 2])
              [] OTHER -> [st EXCEPT !.err = TRUE]
       ELSE CharInputs(a, i + 1, st)

\* position = args(nargin - 1).fix () when the last extra argument is numeric
PositionOf(a) ==
  IF Len(a) > 2 /\ isnumeric(a[Len(a)]) THEN a[Len(a)].num ELSE 0

\* the chain with the checks of strarray put before those of str
FirstFailedCheckStrarrayFirst(ovs, ovsa, ovf, ovv, pos) ==
  IF isempty(ovsa) THEN 5
  ELSE IF ~ iscellstr(ovsa) THEN 6
  ELSE IF ~ is_string(ovs) THEN 3
  ELSE IF NotSingleRow(ovs) THEN 4
  ELSE IF ~ isempty(ovf) /\ NotSingleRow(ovf) THEN 7
  ELSE IF ~ isempty(ovv) /\ NotSingleRow(ovv) THEN 8
  ELSE IF pos < 0 THEN 9
  ELSE 0

\* the else-if chain of checks: the number of the first one that fails, 0
\* when none does
FirstFailedCheck(ovs, ovsa, ovf, ovv, pos) ==
  CASE ~ is_string(ovs) -> 3
    [] is_string(ovs) /\ NotSingleRow(ovs) -> 4
    [] OTHER ->
       IF isempty(ovsa) THEN 5
       ELSE IF ~ iscellstr(ovsa) THEN 6
       ELSE IF ~ isempty(ovf) /\ NotSingleRow(ovf) THEN 7
       ELSE IF ~ isempty(ovv) /\ NotSingleRow(ovv) THEN 8
       ELSE IF pos < 0 THEN 9
       ELSE 0

\* the text of the error of each check
CheckMessage(n) ==
  CASE n = 1 -> <<"Invalid call to validatestring">>
    [] n = 2 -> <<"validatestring: invalid number of character inputs (3)">>
    [] n = 3 -> <<"validatestring: STR must be a character string">>
    [] n = 4 -> <<"validatestring: STR must be a single row vector">>
    [] n = 5 -> <<"validatestring: STRARRAY must be non-empty">>
    [] n = 6 -> <<"validatestring: STRARRAY must be a cellstr">>
    [] n = 7 -> <<"validatestring: FUNCNAME must be a single row vector">>
    [] n = 8 -> <<"validatestring: VARNAME must be a single row vector">>
    [] OTHER -> <<"validatestring: POSITION must be >= 0">>

(* ---------------------------------------------------------------------- *)
(* The prefix of the messages                                              *)
(* ---------------------------------------------------------------------- *)
\* position >= 0 in place of position > 0
HasPositionOrZero(pos) == pos >= 0

\* position > 0
HasPosition(pos) == pos > 0

ErrstrOf(ovf, ovv, s, pos) ==
  (IF ~ isempty(ovf) THEN ovf.text \o <<": ">> ELSE <<>>)
  \o (IF ~ isempty(ovv) THEN ovv.text \o <<" ">> ELSE <<"'">> \o s \o <<"' ">>)
  \o (IF HasPosition(pos) THEN <<"(argument #", ToString(pos), ") ">> ELSE <<>>)

(* ---------------------------------------------------------------------- *)
(* Matching                                                                *)
(* ---------------------------------------------------------------------- *)
\* the comparison cut to the length of the shorter of the two
IsMatchUpToShorter(s, entry) ==
  strncmpi(s, entry, IF Len(s) < Len(entry) THEN Len(s) ELSE Len(entry))

\* strncmp in place of strncmpi
IsMatchCaseSensitive(s, entry) == strncmp(s, entry, Len(s))

\* strncmpi (str, strarray(i), str.length ()) != 0
IsMatch(s, entry) == strncmpi(s, entry, Len(s))

\* the loop that collects the indices of the entries str is a prefix of
RECURSIVE MatchLoop(_, _, _, _)
MatchLoop(s, arr, i, m) ==
  IF i > Len(arr) THEN m
  ELSE MatchLoop(s, arr, i + 1, IF IsMatch(s, arr[i]) THEN Append(m, i) ELSE m)

\* len <= min_len in place of len < min_len
IsShorterOrEqual(len, minlen) == len <= minlen

\* len < min_len
IsShorter(len, minlen) == len < minlen

\* the loop that finds the first shortest matched entry: its index in m
RECURSIVE MinLenLoop(_, _, _, _)
MinLenLoop(arr, m, i, best) ==
  IF i > Len(m) THEN best
  ELSE MinLenLoop(arr, m, i + 1,
                  IF IsShorter(Len(arr[m[i]]), Len(arr[m[best]])) THEN i ELSE best)

\* the comparison over the length of the other match in place of min_len
NotNestedWholeLength(arr, m, idx, minlen, i) ==
  i # idx /\ ~ strncmpi(arr[m[idx]], arr[m[i]], Len(arr[m[i]]))

\* i != min_len_idx && ! strncmpi (strarray(matches(min_len_idx)),
\*                                 strarray(matches(i)), min_len)
NotNested(arr, m, idx, minlen, i) ==
  i # idx /\ ~ strncmpi(arr[m[idx]], arr[m[i]], minlen)

\* every pair of matches compared in place of the shortest with each
SomeNotNestedPairwise(arr, m, idx, minlen) ==
  \E i, j \in 1..Len(m) :
    /\ ~ strncmpi(arr[m[i]], arr[m[j]], Len(arr[m[i]]))
    /\ ~ strncmpi(arr[m[j]], arr[m[i]], Len(arr[m[j]]))

\* the loop over the matches finds one the shortest is no prefix of
SomeNotNested(arr, m, idx, minlen) ==
  \E i \in 1..Len(m) : NotNested(arr, m, idx, minlen, i)

\* str returned in place of the entry
ReturnValueCandidate(s, arr, i) == s

\* return octave_value (strarray(...))
ReturnValue(s, arr, i) == arr[i]

(* ---------------------------------------------------------------------- *)
(* Messages                                                                *)
(* ---------------------------------------------------------------------- *)
\* non_match_str: the entries arr[m[1]], arr[m[2]], ... joined by ", "
RECURSIVE JoinFrom(_, _, _)
JoinFrom(arr, m, i) ==
  IF i > Len(m) THEN <<>> ELSE <<", ">> \o arr[m[i]] \o JoinFrom(arr, m, i + 1)

\* the indices 1 .. n
Iota(n) == [i \in 1..n |-> i]

\* strarray(0), then ", " + strarray(i) for i = 1 .. num_strs - 1
NoMatchList(arr) == arr[1] \o JoinFrom(arr, Iota(Len(arr)), 2)

\* strarray(matches(0)), then ", " + strarray(matches(i)) for the others
AmbiguousList(arr, m) == arr[m[1]] \o JoinFrom(arr, m, 2)

\* error (fmt) with the whole message as the format and no further
\* argument: "%%" prints "%", any other "%" starts a conversion that has no
\* argument to read, which is undefined
RECURSIVE vformat(_, _, _)
vformat(fmt, i, out) ==
  IF i > Len(fmt) THEN [ub |-> FALSE, out |-> out]
  ELSE IF fmt[i] # "%" THEN vformat(fmt, i + 1, Append(out, fmt[i]))
  ELSE IF i < Len(fmt) /\ fmt[i + 1] = "%" THEN vformat(fmt, i + 2, Append(out, "%"))
  ELSE [ub |-> TRUE, out |-> out]

\* what the caller can see of error (fmt): garbage printed for the
\* conversion, or the process gone
FormatOutcomes(fmt) ==
  LET r == vformat(fmt, 1, <<>>)
  IN  IF r.ub THEN {r.out \o <<"<garbage>">>, <<"<abort>">>} ELSE {r.out}

\* the message of the error raised when nothing matches
NoMatchMessages(b, es, arr) ==
  IF b = "dld"
  THEN FormatOutcomes(<<"validatestring: ">> \o es
                      \o <<"does not match any of", "\n">> \o NoMatchList(arr))
  ELSE {<<"validatestring: ">> \o es
        \o <<"does not match any of", " ", "\n">> \o NoMatchList(arr)}

\* the message of the error raised when the matches are ambiguous
AmbiguousMessages(b, es, arr, m) ==
  IF b = "dld"
  THEN FormatOutcomes(<<"validatestring: ">> \o es
                      \o <<"allows multiple unique matches:", "\n">>
                      \o AmbiguousList(arr, m))
  ELSE {<<"validatestring: ">> \o es
        \o <<"allows multiple unique matches:", "\n">> \o AmbiguousList(arr, m)}

(* ---------------------------------------------------------------------- *)
(* The calls that are made                                                 *)
(* ---------------------------------------------------------------------- *)
\* a candidate and one or two entries, each of up to MaxLen characters
LongCalls ==
  {<<RowString(c), CellStr(v)>> :
     c \in Texts(MaxLen), v \in SeqsUpTo(Texts(MaxLen), 2)}

\* a candidate and up to MaxSet entries, each a short text
ManyCalls ==
  {<<RowString(c), CellStr(v)>> :
     c \in ShortTexts, v \in SeqsUpTo(ShortTexts, MaxSet)}

\* what is passed for str: a row, the 0 x 0 string, two rows, three
\* dimensions, a number
StrArgs ==
  {RowString(<<"a">>), CharArray(2, 0, <<>>), CharArray(2, 2, <<"a", "a">>),
   CharArray(3, 1, <<"a">>), Numeric(1)}

\* what is passed for strarray: entries that are ambiguous for "a", that
\* match it once, that do not match it, no entry, a cell that holds no
\* string, a string
StrarrayArgs ==
  {CellStr(<< <<"a", "b">>, <<"a", "a">> >>), CellStr(<< <<"A">> >>),
   CellStr(<< <<"b">>, <<>> >>), CellStr(<<>>),
   CellOther(<< <<"a">> >>), RowString(<<"a">>)}

\* what is passed after strarray
ExtraArgs ==
  {RowString(<<"a">>), RowString(<<"A", "b">>), CharArray(2, 0, <<>>),
   CharArray(2, 2, <<"a", "a">>), Numeric(0 - 1), Numeric(0), Numeric(2)}

\* calls with any number of arguments of any kind
MixedCalls ==
  {<<>>}
  \cup {<<s>> : s \in StrArgs}
  \cup {<<s, sa>> \o x :
          s \in StrArgs, sa \in StrarrayArgs,
          x \in {<<>>} \cup SeqsUpTo(ExtraArgs, MaxNargin - 2)}
  \cup {<<s, sa, e, e, e, e>> :
          s \in StrArgs, sa \in StrarrayArgs, e \in ExtraArgs}

(* ---------------------------------------------------------------------- *)
(* State                                                                   *)
(* ---------------------------------------------------------------------- *)
VARIABLES build, args, pc, ov_funcname, ov_varname, nstr, position, str,
          strarray, errstr, matches, min_len, min_len_idx, kind, failed,
          validstr, msg

vars == <<build, args, pc, ov_funcname, ov_varname, nstr, position, str,
          strarray, errstr, matches, min_len, min_len_idx, kind, failed,
          validstr, msg>>

parsed == <<ov_funcname, ov_varname, nstr, position>>

matching == <<str, strarray, errstr, matches, min_len, min_len_idx>>

outcome == <<kind, failed, validstr, msg>>

\* ov_str = args(0)
ov_str == args[1]

\* ov_strarray = args(1)
ov_strarray == args[2]

Init ==
  /\ build \in Builds
  /\ args \in LongCalls \cup ManyCalls \cup MixedCalls
  /\ pc = "call"
  /\ ov_funcname = Undefined
  /\ ov_varname = Undefined
  /\ nstr = 0
  /\ position = 0
  /\ str = <<>>
  /\ strarray = <<>>
  /\ errstr = <<>>
  /\ matches = <<>>
  /\ min_len = 0
  /\ min_len_idx = 0
  /\ kind = "none"
  /\ failed = 0
  /\ validstr = <<>>
  /\ msg = <<>>

\* error (...) of the check with number n, or print_usage ()
Raise(n) ==
  /\ pc' = "done"
  /\ kind' = "InvalidArgument"
  /\ failed' = n
  /\ msg' = CheckMessage(n)
  /\ UNCHANGED validstr

\* the argument count, the character inputs and the position
ParseArgs ==
  /\ pc = "call"
  /\ IF Len(args) < 2 \/ Len(args) > MaxNargin
     THEN Raise(1) /\ UNCHANGED parsed
     ELSE LET st == CharInputs(args, 3,
                               [funcname |-> Undefined, varname |-> Undefined,
                                nstr |-> 0, err |-> FALSE])
          IN  /\ ov_funcname' = st.funcname
              /\ ov_varname' = st.varname
              /\ nstr' = st.nstr
              /\ IF st.err
                 THEN Raise(2) /\ UNCHANGED position
                 ELSE /\ position' = PositionOf(args)
                      /\ pc' = "parsed"
                      /\ UNCHANGED outcome
  /\ UNCHANGED <<build, args, matching>>

\* the checks of the arguments
CheckArgs ==
  /\ pc = "parsed"
  /\ LET n == FirstFailedCheck(ov_str, ov_strarray, ov_funcname, ov_varname,
                               position)
     IN  IF n # 0 THEN Raise(n) ELSE pc' = "checked" /\ UNCHANGED outcome
  /\ UNCHANGED <<build, args, parsed, matching>>

\* str, strarray and the prefix of the messages
BuildErrstr ==
  /\ pc = "checked"
  /\ str' = ov_str.text
  /\ strarray' = ov_strarray.cells
  /\ errstr' = ErrstrOf(ov_funcname, ov_varname, ov_str.text, position)
  /\ pc' = "prefixed"
  /\ UNCHANGED <<build, args, parsed, matches, min_len, min_len_idx, outcome>>

\* the loop over strarray
FindMatches ==
  /\ pc = "prefixed"
  /\ matches' = MatchLoop(str, strarray, 1, <<>>)
  /\ pc' = "matched"
  /\ UNCHANGED <<build, args, parsed, str, strarray, errstr, min_len,
                 min_len_idx, outcome>>

\* nmatches == 0
NoMatch ==
  /\ pc = "matched"
  /\ Len(matches) = 0
  /\ pc' = "done"
  /\ kind' = "NoMatch"
  /\ msg' \in NoMatchMessages(build, errstr, strarray)
  /\ UNCHANGED <<build, args, parsed, matching, failed, validstr>>

\* nmatches == 1
SingleMatch ==
  /\ pc = "matched"
  /\ Len(matches) = 1
  /\ pc' = "done"
  /\ kind' = "ok"
  /\ validstr' = ReturnValue(str, strarray, matches[1])
  /\ UNCHANGED <<build, args, parsed, matching, failed, msg>>

\* the loop that finds the shortest match
FindMinLen ==
  /\ pc = "matched"
  /\ Len(matches) > 1
  /\ LET idx == MinLenLoop(strarray, matches, 2, 1)
     IN  /\ min_len_idx' = idx
         /\ min_len' = Len(strarray[matches[idx]])
  /\ pc' = "shortest"
  /\ UNCHANGED <<build, args, parsed, str, strarray, errstr, matches, outcome>>

\* the shortest match is no prefix of some other match
Ambiguous ==
  /\ pc = "shortest"
  /\ SomeNotNested(strarray, matches, min_len_idx, min_len)
  /\ pc' = "done"
  /\ kind' = "AmbiguousMatch"
  /\ msg' \in AmbiguousMessages(build, errstr, strarray, matches)
  /\ UNCHANGED <<build, args, parsed, matching, failed, validstr>>

\* the shortest match is a prefix of every other match
ReturnShortest ==
  /\ pc = "shortest"
  /\ ~ SomeNotNested(strarray, matches, min_len_idx, min_len)
  /\ pc' = "done"
  /\ kind' = "ok"
  /\ validstr' = ReturnValue(str, strarray, matches[min_len_idx])
  /\ UNCHANGED <<build, args, parsed, matching, failed, msg>>

Next ==
  \/ ParseArgs
  \/ CheckArgs
  \/ BuildErrstr
  \/ FindMatches
  \/ NoMatch
  \/ SingleMatch
  \/ FindMinLen
  \/ Ambiguous
  \/ ReturnShortest

Spec == Init /\ [][Next]_vars

(* ---------------------------------------------------------------------- *)
(* The whole of the matching as one operator, for the properties that      *)
(* compare two calls                                                       *)
(* ---------------------------------------------------------------------- *)
validate(s, arr) ==
  LET m == MatchLoop(s, arr, 1, <<>>)
  IN  IF Len(m) = 0 THEN [kind |-> "NoMatch", idx |-> 0, matched |-> m]
      ELSE IF Len(m) = 1 THEN [kind |-> "ok", idx |-> m[1], matched |-> m]
      ELSE LET k == MinLenLoop(arr, m, 2, 1)
           IN  IF SomeNotNested(arr, m, k, Len(arr[m[k]]))
               THEN [kind |-> "AmbiguousMatch", idx |-> 0, matched |-> m]
               ELSE [kind |-> "ok", idx |-> m[k], matched |-> m]

(* ---------------------------------------------------------------------- *)
(* The vocabulary of the properties, stated on the arguments of the call   *)
(* ---------------------------------------------------------------------- *)
\* the two characters are the same letter, whatever their case
SameLetter(x, y) ==
  x = y \/ {x, y} = {"a", "A"} \/ {x, y} = {"b", "B"}

\* c is a case-insensitive prefix of e
IsPrefixCI(c, e) ==
  /\ Len(c) <= Len(e)
  /\ \A k \in 1..Len(c) : SameLetter(c[k], e[k])

IsStringArg(v) == v.type = "string"

\* the character inputs after strarray, in order
StringExtras == SelectSeq(SubSeq(args, 3, Len(args)), IsStringArg)

\* the value has no element
NoElement(v) ==
  CASE v.type = "string" -> v.rows = 0 \/ v.text = <<>>
    [] v.type = "cell" -> v.cells = <<>>
    [] v.type = "undefined" -> TRUE
    [] OTHER -> FALSE

\* a function or variable name that is given and is not one row
BadName(v) == ~ NoElement(v) /\ ~ (v.ndims = 2 /\ v.rows = 1)

\* the position the call gives: its last argument when that is a number
GivenPosition ==
  IF Len(args) > 2 /\ args[Len(args)].type = "numeric"
  THEN args[Len(args)].num ELSE 0

\* the call violates precondition n of the list of the specification
Violates(n) ==
  CASE n = 1 -> Len(args) < 2 \/ Len(args) > 5
    [] n = 2 -> Len(StringExtras) > 2
    [] n = 3 -> Len(args) >= 2 /\ args[1].type # "string"
    [] n = 4 -> Len(args) >= 2 /\ ~ (args[1].ndims = 2 /\ args[1].rows = 1)
    [] n = 5 -> Len(args) >= 2 /\ NoElement(args[2])
    [] n = 6 -> Len(args) >= 2 /\ ~ (args[2].type = "cell" /\ args[2].cellstr)
    [] n = 7 -> Len(StringExtras) >= 1 /\ BadName(StringExtras[1])
    [] n = 8 -> Len(StringExtras) >= 2 /\ BadName(StringExtras[2])
    [] OTHER -> GivenPosition < 0

Violated == {n \in 1..9 : Violates(n)}

\* the earliest violated precondition
EarliestViolated == CHOOSE n \in Violated : \A k \in Violated : n <= k

\* the call meets every precondition
WellFormed == Violated = {}

\* the candidate and the valid set of a well-formed call
Cand == args[1].text

VSet == args[2].cells

\* the indices of the entries the candidate is a prefix of
Matched == {i \in 1..Len(VSet) : IsPrefixCI(Cand, VSet[i])}

\* the matched indices as a sequence in the order of the valid set
RECURSIVE InOrder(_, _)
InOrder(S, i) ==
  IF i > Len(VSet) THEN <<>>
  ELSE (IF i \in S THEN <<i>> ELSE <<>>) \o InOrder(S, i + 1)

\* the lowest index among the matched entries of the least length
Shortest ==
  CHOOSE i \in Matched :
    \A j \in Matched :
      Len(VSet[i]) < Len(VSet[j]) \/ (Len(VSet[i]) = Len(VSet[j]) /\ i <= j)

\* the shortest matched entry is a prefix of every matched entry
ShortestIsPrefixOfAll ==
  \A j \in Matched : IsPrefixCI(VSet[Shortest], VSet[j])

\* any two matched entries nest: one is a prefix of the other
AllNested ==
  \A i, j \in Matched :
    IsPrefixCI(VSet[i], VSet[j]) \/ IsPrefixCI(VSet[j], VSet[i])

\* the call has run the matching to its end
Matching == pc = "done" /\ WellFormed

\* the entries with the given indices, joined by ", "
RECURSIVE Joined(_, _)
Joined(arr, m) ==
  IF Len(m) = 0 THEN <<>>
  ELSE IF Len(m) = 1 THEN arr[m[1]]
  ELSE arr[m[1]] \o <<", ">> \o Joined(arr, Tail(m))

\* the prefix of the messages as the specification builds it
ExpectedErrstr ==
  LET fn == IF Len(StringExtras) >= 1 THEN StringExtras[1].text ELSE <<>>
      vn == IF Len(StringExtras) >= 2 THEN StringExtras[2].text ELSE <<>>
  IN  (IF fn # <<>> THEN fn \o <<": ">> ELSE <<>>)
      \o (IF vn # <<>> THEN vn \o <<" ">> ELSE <<"'">> \o Cand \o <<"' ">>)
      \o (IF GivenPosition > 0
          THEN <<"(argument #", ToString(GivenPosition), ") ">> ELSE <<>>)

\* the tokens of a message
Tokens(m) == {m[k] : k \in 1..Len(m)}

\* the index of strarray the call returned
ReturnedIdx ==
  IF Len(matches) = 1 THEN matches[1] ELSE matches[min_len_idx]

\* the entries of the valid set that equal the candidate when case is
\* ignored
Equal == {i \in Matched : Len(VSet[i]) = Len(Cand)}

\* the lowest index of a set of indices
Lowest(S) == CHOOSE i \in S : \A j \in S : i <= j

\* a character in lower case, in upper case, in its other case
LowerCase(ch) ==
  CASE ch = "A" -> "a" [] ch = "B" -> "b" [] OTHER -> ch

UpperCase(ch) ==
  CASE ch = "a" -> "A" [] ch = "b" -> "B" [] OTHER -> ch

OtherCase(ch) == IF LowerCase(ch) = ch THEN UpperCase(ch) ELSE LowerCase(ch)

\* the ways the letters of a text are replaced
Recasings == {"same", "lower", "upper", "other"}

Recase(how, t) ==
  [k \in 1..Len(t) |->
     CASE how = "lower" -> LowerCase(t[k])
       [] how = "upper" -> UpperCase(t[k])
       [] how = "other" -> OtherCase(t[k])
       [] OTHER -> t[k]]

RecaseAll(how, arr) == [i \in 1..Len(arr) |-> Recase(how, arr[i])]

(* ---------------------------------------------------------------------- *)
(* Properties                                                              *)
(* ---------------------------------------------------------------------- *)

\* C1: when the candidate is a case-insensitive prefix of exactly one entry
\* of a non-empty valid set (an entry shorter than the candidate is no
\* match), the call succeeds and returns that entry verbatim, wherever it
\* stands and whatever the other entries are.
C1_UniqueMatchReturned ==
  (Matching /\ Cardinality(Matched) = 1)
    => (kind = "ok" /\ validstr = VSet[Lowest(Matched)])

\* C1 happens: the one match is not the first entry, it is longer than the
\* candidate, and another entry is shorter than the candidate
C1_Witness ==
  /\ Matching
  /\ Cardinality(Matched) = 1
  /\ 1 \notin Matched
  /\ kind = "ok"
  /\ validstr # Cand
  /\ \E i \in 1..Len(VSet) : Len(VSet[i]) < Len(Cand)

\* C2: when the candidate is a prefix of two or more entries and the
\* shortest of them is a case-insensitive prefix of every other one, the
\* call succeeds and returns the shortest matched entry verbatim, the one
\* of lowest index when several have the least length.
C2_ShortestMatchReturned ==
  (Matching /\ Cardinality(Matched) >= 2 /\ ShortestIsPrefixOfAll)
    => (kind = "ok" /\ validstr = VSet[Shortest])

\* C2 happens with a tie: a later matched entry has the least length too
\* and differs from the returned one
C2_Witness ==
  /\ Matching
  /\ Cardinality(Matched) >= 2
  /\ ShortestIsPrefixOfAll
  /\ kind = "ok"
  /\ \E j \in Matched :
       /\ j > Shortest
       /\ Len(VSet[j]) = Len(VSet[Shortest])
       /\ VSet[j] # VSet[Shortest]

\* a message that was printed whole
Printed(m) == Tokens(m) \cap {"<garbage>", "<abort>"} = {}

\* C3, in the loadable build: when the candidate is a prefix of two or more
\* entries and the shortest is no prefix of some other match, the call
\* fails with AmbiguousMatch, returns no string, and its message, when it
\* is printed whole, is, after the name of the function, errstr, "allows
\* multiple unique matches:", a newline and exactly the matched entries in
\* the order of the valid set joined by ", ".
C3_AmbiguousListsMatched ==
  (Matching /\ build = "dld" /\ Cardinality(Matched) >= 2
     /\ ~ ShortestIsPrefixOfAll /\ Printed(msg))
    => /\ kind = "AmbiguousMatch"
       /\ validstr = <<>>
       /\ msg = <<"validatestring: ">> \o ExpectedErrstr
                  \o <<"allows multiple unique matches:", "\n">>
                  \o Joined(VSet, InOrder(Matched, 1))

\* C4, in the loadable build: when the candidate is a prefix of no entry,
\* the call fails with NoMatch and its message, when it is printed whole,
\* is, after the name of the function, errstr immediately followed by
\* "does not match any of", a newline and every entry of the valid set in
\* order joined by ", ".
C4_NoMatchListsAll ==
  (Matching /\ build = "dld" /\ Matched = {} /\ Printed(msg))
    => /\ kind = "NoMatch"
       /\ msg = <<"validatestring: ">> \o ExpectedErrstr
                  \o <<"does not match any of", "\n">>
                  \o Joined(VSet, Iota(Len(VSet)))

C6_CaseInsensitive ==
  Matching =>
    \A f \in Recasings, g \in Recasings :
      LET o == validate(Recase(f, Cand), RecaseAll(g, VSet))
      IN  /\ o.kind = kind
          /\ o.matched = matches
          /\ kind = "ok" => o.idx = ReturnedIdx

\* C6 happens: an upper-case candidate expanded to a lower-case entry with
\* a second letter, as "R" to "red"
C6_Witness ==
  /\ Matching
  /\ Cand = <<"A">>
  /\ kind = "ok"
  /\ validstr = <<"a", "b">>

\* C7: in a NoMatch or AmbiguousMatch error errstr is "<functionName>: "
\* if a function name is given, then "<variableName> " if a variable name
\* is given and the quoted candidate otherwise, then "(argument #<n>) " if
\* and only if the position is above 0; the message of the built-in build
\* starts with it after the name of the function, no message quotes the
\* candidate when a variable name is given, and none names an argument
\* when the position is 0 or absent.
C7_ErrstrLayout ==
  (pc = "done" /\ kind \in {"NoMatch", "AmbiguousMatch"})
    => /\ errstr = ExpectedErrstr
       /\ build = "static"
            => SubSeq(msg, 1, 1 + Len(errstr)) = <<"validatestring: ">> \o errstr
       /\ (Len(StringExtras) >= 2 /\ StringExtras[2].text # <<>>)
            => Tokens(msg) \cap {"'", "' "} = {}
       /\ GivenPosition <= 0 => "(argument #" \notin Tokens(msg)

\* C7 happens: function name, variable name and position 2 in a NoMatch
\* message
C7_Witness ==
  /\ pc = "done"
  /\ kind = "NoMatch"
  /\ build = "static"
  /\ Len(StringExtras) = 2
  /\ GivenPosition = 2
  /\ SubSeq(msg, 1, 9) =
       <<"validatestring: ", "a", ": ", "A", "b", " ", "(argument #", "2", ") ">>

\* C8: a call that violates preconditions fails with InvalidArgument for
\* the earliest violated one in the order argument count, character
\* inputs, candidate a string, candidate one row, valid set non-empty,
\* valid set all strings, function name one row, variable name one row,
\* position not negative; it never reaches the matching and yields no
\* string, NoMatch or AmbiguousMatch; and only such a call fails so.
C8_EarliestCheckOnly ==
  /\ Violated # {}
       => /\ pc \in {"call", "parsed", "done"}
          /\ kind \in {"none", "InvalidArgument"}
          /\ validstr = <<>>
          /\ matches = <<>>
  /\ (pc = "done" /\ Violated # {})
       => (kind = "InvalidArgument" /\ failed = EarliestViolated)
  /\ kind = "InvalidArgument" => Violated # {}

\* C8 happens: three preconditions violated at once by a call whose
\* candidate would match
C8_Witness ==
  /\ pc = "done"
  /\ kind = "InvalidArgument"
  /\ {7, 8, 9} \subseteq Violated
  /\ failed = 7
  /\ Matched # {}

\* C9: when the candidate equals an entry but for case, the call succeeds,
\* however many longer entries the candidate is a prefix of, and returns
\* the entry of lowest index that equals it.
C9_ExactMatchWins ==
  (Matching /\ Equal # {})
    => (kind = "ok" /\ validstr = VSet[Lowest(Equal)])

\* C9 happens: a longer match stands before the entry that equals the
\* candidate, and that entry differs from the candidate in case
C9_Witness ==
  /\ Matching
  /\ Equal # {}
  /\ 1 \in Matched \ Equal
  /\ kind = "ok"
  /\ validstr # Cand

\* C10: a returned string is an entry of the valid set, and validating it
\* against the same valid set succeeds and returns the entry of the same
\* index.
C10_Idempotent ==
  (pc = "done" /\ kind = "ok")
    => /\ \E i \in 1..Len(strarray) : strarray[i] = validstr
       /\ LET o == validate(validstr, strarray)
          IN  /\ o.kind = "ok"
              /\ o.idx = ReturnedIdx
              /\ strarray[o.idx] = validstr

\* C10 happens: the returned entry is longer than the candidate and was
\* chosen among several matches
C10_Witness ==
  /\ pc = "done"
  /\ kind = "ok"
  /\ Len(matches) >= 2
  /\ Len(validstr) > Len(str)

====
